---------------------------- MODULE Spec2Model ----------------------------
(***************************************************************************)
(* Model of the dispatch-and-normalize pipeline of src/archive:            *)
(*   FileProcessor.process_file / batch_process   (file_processor.py)      *)
(*   CSVProcessor.process_csv / _convert_value    (csv_processor.py)       *)
(*   PDFProcessor.process_pdf                     (pdf_processor.py)       *)
(*   ImageProcessor.process_image                 (image_processor.py)     *)
(*   save_output (identical in the three extractors)                       *)
(*                                                                         *)
(* Python values are tagged records: [t |-> <type name>, ...].  A str is a *)
(* sequence of fragments (a path is spelled character by character so that *)
(* os.path.splitext, os.path.basename and str.lower can be computed).      *)
(***************************************************************************)
EXTENDS Integers, Sequences, FiniteSets, TLC

(* ------------------------------ bounds -------------------------------- *)

\* Longest list of paths handed to batch_process.
MaxBatch == 2

(* --------------------------- Python values ---------------------------- *)

Str(s) == [t |-> "str", s |-> s]
Lit(x) == Str(<<x>>)
PyInt(n) == [t |-> "int", n |-> n]
\* A float is the fraction num/den; den = 0 is NaN.
PyFloat(num, den) == [t |-> "float", num |-> num, den |-> den]
NpInt64(n) == [t |-> "np.int64", n |-> n]
NpFloat64(num, den) == [t |-> "np.float64", num |-> num, den |-> den]
PyNone == [t |-> "NoneType"]
PyList(items) == [t |-> "list", items |-> items]
PyTuple(items) == [t |-> "tuple", items |-> items]
PyDict(d) == [t |-> "dict", d |-> d]
EmptyDict == [k \in {} |-> 0]

IsNaN(v) == v.t \in {"float", "np.float64"} /\ v.den = 0

(* --------------------------- str and os.path -------------------------- *)

Upper == <<"A","B","C","D","E","F","G","H","I","J","K","L","M",
           "N","O","P","Q","R","S","T","U","V","W","X","Y","Z">>
LowerOf == <<"a","b","c","d","e","f","g","h","i","j","k","l","m",
             "n","o","p","q","r","s","t","u","v","w","x","y","z">>

\* str.lower on one character.
LowerChar(c) ==
    IF \E i \in DOMAIN Upper : Upper[i] = c
    THEN LowerOf[CHOOSE i \in DOMAIN Upper : Upper[i] = c]
    ELSE c

\* str.lower
Lower(s) == [i \in DOMAIN s |-> LowerChar(s[i])]

\* str.rfind(c): the last index of c, 0 when absent (indices are 1-based).
RFind(s, c) ==
    IF \E i \in DOMAIN s : s[i] = c
    THEN CHOOSE i \in DOMAIN s : s[i] = c /\ \A j \in DOMAIN s : s[j] = c => j <= i
    ELSE 0

\* os.path.splitext (genericpath._splitext): the extension starts at the
\* last dot of the last component, unless only dots precede it there.
SplitAt(p, sepIndex, dotIndex) ==
    IF dotIndex > sepIndex
       /\ \E k \in (sepIndex + 1)..(dotIndex - 1) : p[k] # "."
    THEN <<SubSeq(p, 1, dotIndex - 1), SubSeq(p, dotIndex, Len(p))>>
    ELSE <<p, <<>> >>
SplitExt(p) == SplitAt(p, RFind(p, "/"), RFind(p, "."))

\* os.path.basename
BaseName(p) == SubSeq(p, RFind(p, "/") + 1, Len(p))

\* os.path.join(a, b) for a relative b
PathJoin(a, b) == a \o <<"/">> \o b


(* ------------------------- arithmetic helpers ------------------------- *)

RECURSIVE Gcd(_, _)
Gcd(a, b) == IF b = 0 THEN a ELSE Gcd(b, a % b)

Abs(n) == IF n < 0 THEN -n ELSE n

\* The fraction num/den in lowest terms, as <<num, den>> (den > 0).
Reduce(num, den, g) == <<num \div g, den \div g>>
Frac(num, den) == Reduce(num, den, Gcd(Abs(num), den))

RECURSIVE SumSeq(_)
SumSeq(s) == IF s = <<>> THEN 0 ELSE Head(s) + SumSeq(Tail(s))

(* ------------------------------- json --------------------------------- *)

\* Whether json's encoder accepts the value: str, int, float (np.float64 is
\* a subclass of float), None, and lists, tuples and dicts of such.  Any
\* other object (np.int64 is not an int) makes JSONEncoder.default raise
\* TypeError.
RECURSIVE JsonSerializable(_)
JsonSerializable(v) ==
    CASE v.t \in {"str", "int", "float", "np.float64", "NoneType"} -> TRUE
      [] v.t \in {"list", "tuple"} ->
             \A i \in DOMAIN v.items : JsonSerializable(v.items[i])
      [] v.t = "dict" -> \A k \in DOMAIN v.d : JsonSerializable(v.d[k])
      [] OTHER -> FALSE

\* The document json.dump writes for a serializable value, given as the
\* value json.load reads back from it: a tuple is written as an array and
\* comes back a list, an np.float64 comes back a float.
RECURSIVE JsonDoc(_)
JsonDoc(v) ==
    CASE v.t \in {"list", "tuple"} ->
             PyList([i \in DOMAIN v.items |-> JsonDoc(v.items[i])])
      [] v.t = "dict" -> PyDict([k \in DOMAIN v.d |-> JsonDoc(v.d[k])])
      [] v.t = "np.float64" -> PyFloat(v.num, v.den)
      [] OTHER -> v

(* --------------------------- the file system -------------------------- *)

\* What a call finds when it opens its output file for writing.
WriteFaults == {"none", "open", "write"}

\* A file of the output directory: a complete JSON document, or the prefix
\* a failed json.dump left behind.
CompleteFile(v) == [state |-> "complete", doc |-> JsonDoc(v)]
PartialFile == [state |-> "partial"]

\* dict-like update of the directory: fs with path bound to file.
FsPut(fs, path, file) ==
    [p \in (DOMAIN fs) \cup {path} |-> IF p = path THEN file ELSE fs[p]]

\* A call's outcome: a returned value or a raised exception.
Return(v) == [raised |-> FALSE, value |-> v]
Raise(detail) == [raised |-> TRUE, detail |-> detail]


(* ----------------------------- save_output ---------------------------- *)

\* str(e) of the fault a failed save raises.
OpenErrorDetail(output_path) ==
    <<"[Errno 13] Permission denied: '">> \o output_path \o <<"'">>
WriteErrorDetail == <<"[Errno 28] No space left on device">>
NotSerializableDetail == <<"Object of type int64 is not JSON serializable">>

\* save_output with the except clause swallowing the fault instead of
\* re-raising it.
save_output_swallow(output_data, output_path, fs, wf) ==
    IF wf = "open"
    THEN [out |-> Return(PyNone), fs |-> fs]
    ELSE IF wf = "write" \/ ~JsonSerializable(output_data)
    THEN [out |-> Return(PyNone), fs |-> FsPut(fs, output_path, PartialFile)]
    ELSE [out |-> Return(PyNone),
          fs  |-> FsPut(fs, output_path, CompleteFile(output_data))]

\* save_output (the same in the three extractors): open the path for
\* writing, which truncates it, json.dump the data chunk by chunk
\* (indent=2 selects the streaming encoder), and re-raise whatever fails
\* after logging it.  wf is what the file system does to this write.
save_output(output_data, output_path, fs, wf) ==
    IF wf = "open"
    THEN [out |-> Raise(OpenErrorDetail(output_path)), fs |-> fs]
    ELSE IF wf = "write"
    THEN [out |-> Raise(WriteErrorDetail),
          fs  |-> FsPut(fs, output_path, PartialFile)]
    ELSE IF ~JsonSerializable(output_data)
    THEN [out |-> Raise(NotSerializableDetail),
          fs  |-> FsPut(fs, output_path, PartialFile)]
    ELSE [out |-> Return(PyNone),
          fs  |-> FsPut(fs, output_path, CompleteFile(output_data))]

(* ------------------------- text of pages and OCR ---------------------- *)

Whitespace == {" ", "\n", "\t"}

\* str.strip
StripTo(s, ink) ==
    IF ink = {} THEN <<>>
    ELSE SubSeq(s, CHOOSE i \in ink : \A j \in ink : i <= j,
                   CHOOSE i \in ink : \A j \in ink : j <= i)
Strip(s) == StripTo(s, {i \in DOMAIN s : s[i] \notin Whitespace})

\* len(s.split()): the number of maximal runs of non-whitespace.
WordCount(s) ==
    Cardinality({i \in DOMAIN s :
        s[i] \notin Whitespace /\ (i = 1 \/ s[i - 1] \in Whitespace)})


(* --------------------------- ImageProcessor --------------------------- *)

\* What PIL and tesseract do with one image file.  fault: "open" (Image.open
\* raises), "ocr" (pytesseract raises), "none".
ImageFile(fault, text, conf) ==
    [fault |-> fault, format |-> <<"PNG">>, width |-> 2, height |-> 1,
     mode |-> <<"RGB">>, text |-> text, conf |-> conf]

ImageWorlds ==
    { ImageFile("ocr", <<>>, <<>>),
      ImageFile("none", <<" ", "h", "i", "\n">>, <<90, -1, 80, -1>>) }

ImageFaultDetail(fault, image_path) ==
    IF fault = "open"
    THEN <<"cannot identify image file '">> \o image_path \o <<"'">>
    ELSE <<"tesseract is not installed or it's not in your PATH">>

\* round(num/den, 2) of a non-negative float, ties to even.
HalfEven(fl, r2, den) ==
    IF r2 < den THEN fl
    ELSE IF r2 > den THEN fl + 1
    ELSE IF fl % 2 = 0 THEN fl ELSE fl + 1
PyFrac(f) == PyFloat(f[1], f[2])
Round2(num, den) ==
    PyFrac(Frac(HalfEven((100 * num) \div den, 2 * ((100 * num) % den), den), 100))

\* The except clause of process_image.
image_error(image_path, detail) ==
    PyDict([processing_status |-> Lit("error"),
            error_message |->
                Str(<<"Error processing image ">> \o image_path \o <<": ">> \o detail),
            extracted_text |-> Str(<<>>),
            confidence_score |-> PyInt(0)])

\* process_image: metadata, the OCR text, the mean of the confidences that
\* are not -1 (0 when there is none) rounded to 2 places; any fault gives
\* the error envelope.
\* round(avg_confidence, 2): the mean of the confidences, the int 0 when
\* there is none.
confidence_score(confidences) ==
    IF confidences # <<>>
    THEN Round2(SumSeq(confidences), Len(confidences))
    ELSE PyInt(0)

process_image(image_path, w) ==
    IF w.fault # "none"
    THEN Return(image_error(image_path, ImageFaultDetail(w.fault, image_path)))
    ELSE Return(PyDict(
             [metadata |->
                  PyDict([format |-> Str(w.format),
                          size |-> PyTuple(<<PyInt(w.width), PyInt(w.height)>>),
                          mode |-> Str(w.mode)]),
              extracted_text |-> Str(Strip(w.text)),
              confidence_score |->
                  confidence_score(SelectSeq(w.conf, LAMBDA c : c # -1)),
              processing_status |-> Lit("success")]))

(* ---------------------------- PDFProcessor ---------------------------- *)

\* What the file system and pdfminer do with one PDF file.  fault: "open"
\* (open raises), "parse" (PDFPage.get_pages raises), "page" (the
\* interpreter raises on page faultPage), "stat" (os.path.getsize raises),
\* "none".
PdfFile(fault, faultPage, pages) ==
    [fault |-> fault, faultPage |-> faultPage, pages |-> pages, size |-> 7]

PdfText1 == <<" ", "a", " ", "b", "\n">>
PdfText2 == <<"c">>

PdfWorlds ==
    { PdfFile("open", 0, <<>>),
      PdfFile("page", 2, <<PdfText1, PdfText2>>),
      PdfFile("none", 0, <<PdfText1, PdfText2>>) }

PdfFaultDetail(fault, pdf_path) ==
    CASE fault \in {"open", "stat"} ->
             <<"[Errno 2] No such file or directory: '">> \o pdf_path \o <<"'">>
      [] fault = "parse" -> <<"No /Root object! - Is this really a PDF?">>
      [] OTHER -> <<"Invalid page content stream">>

\* One pass of the page loop: page_data for page page_num.
page_data(page_num, text) ==
    PyDict([page_number |-> PyInt(page_num),
            content |-> Str(Strip(text)),
            word_count |-> PyInt(WordCount(text))])

\* pages_content when the page loop stops: after every page, or, when the
\* interpreter raises on page faultPage, with the pages before it.
pages_content(w) ==
    [i \in 1..(IF w.fault = "page" THEN w.faultPage - 1 ELSE Len(w.pages)) |->
        page_data(i, w.pages[i])]

\* The except clause of process_pdf.
pdf_error(pdf_path, detail) ==
    PyDict([processing_status |-> Lit("error"),
            error_message |->
                Str(<<"Error processing PDF ">> \o pdf_path \o <<": ">> \o detail),
            pages |-> PyList(<<>>),
            metadata |-> PyDict(EmptyDict)])

\* process_pdf with the except clause returning what the loop had gathered.
process_pdf_partial(pdf_path, w) ==
    IF w.fault # "none"
    THEN Return([pdf_error(pdf_path, PdfFaultDetail(w.fault, pdf_path))
                    EXCEPT !.d.pages = PyList(IF w.fault \in {"open", "parse"}
                                              THEN <<>> ELSE pages_content(w))])
    ELSE Return(PyDict([metadata |->
                            PyDict([total_pages |-> PyInt(Len(w.pages)),
                                    file_name |-> Str(BaseName(pdf_path)),
                                    file_size |-> PyInt(w.size)]),
                        pages |-> PyList(pages_content(w)),
                        processing_status |-> Lit("success")]))

\* process_pdf: count the pages, extract them one by one, then build the
\* envelope; a fault anywhere gives the error envelope with no page.
process_pdf(pdf_path, w) ==
    IF w.fault # "none"
    THEN Return(pdf_error(pdf_path, PdfFaultDetail(w.fault, pdf_path)))
    ELSE Return(PyDict([metadata |->
                            PyDict([total_pages |-> PyInt(Len(w.pages)),
                                    file_name |-> Str(BaseName(pdf_path)),
                                    file_size |-> PyInt(w.size)]),
                        pages |-> PyList(pages_content(w)),
                        processing_status |-> Lit("success")]))


(* ---------------------------- CSVProcessor ---------------------------- *)

\* Cells of a parsed table: a number, a missing value, a text.
Num(n) == [k |-> "num", n |-> n, s |-> ""]
NA == [k |-> "na", n |-> 0, s |-> ""]
Txt(s) == [k |-> "str", n |-> 0, s |-> s]

\* What the file system and pandas do with one CSV file: the DataFrame
\* read_csv returns (column names in file order, the dtype pandas inferred
\* for each column, the cells), or a fault: "read" (read_csv raises),
\* "stat" (os.path.getsize raises), "rows" (the row loop raises), "none".
CsvFile(fault, columns, dtype, cells) ==
    [fault |-> fault, columns |-> columns, dtype |-> dtype, cells |-> cells,
     size |-> 9]

DfNone == CsvFile("read", <<>>, EmptyDict, EmptyDict)
\* a: 1, 2, 3 and one missing value (float64)
DfNullable(fault) ==
    CsvFile(fault, <<"a">>, [a |-> "float64"],
            [a |-> <<Num(1), Num(2), Num(3), NA>>])
\* a: 2, 1 (int64); b: "x", missing (object)
DfMixed ==
    CsvFile("none", <<"a", "b">>, [a |-> "int64", b |-> "object"],
            [a |-> <<Num(2), Num(1)>>, b |-> <<Txt("x"), NA>>])

CsvWorlds ==
    { DfNone, DfNullable("rows"), DfNullable("none"), DfMixed }

CsvFaultDetail(fault, csv_path) ==
    CASE fault = "read" -> <<"'utf-8' codec can't decode byte 0xff in position 0">>
      [] fault = "stat" ->
             <<"[Errno 2] No such file or directory: '">> \o csv_path \o <<"'">>
      [] OTHER -> <<"out of memory">>

\* _convert_value: np.integer and np.floating scalars by .item(), an
\* ndarray by .tolist(), a missing value (pd.isna) to None, the rest as is.
\* The tests run in this order: a NaN np.float64 leaves by .item(), as a
\* float NaN.
RECURSIVE _convert_value(_)
_convert_value(value) ==
    CASE value.t = "np.int64" -> PyInt(value.n)
      [] value.t = "np.float64" -> PyFloat(value.num, value.den)
      [] value.t = "np.ndarray" ->
             PyList([i \in DOMAIN value.items |-> _convert_value(value.items[i])])
      [] value.t = "NoneType" \/ IsNaN(value) -> PyNone
      [] OTHER -> value

\* pd.api.types.is_numeric_dtype
is_numeric_dtype(dtype) == dtype \in {"int64", "float64", "bool"}

\* The numbers of a column that are not missing.
Present(cells) ==
    LET keep == SelectSeq(cells, LAMBDA c : c.k = "num")
    IN  [i \in DOMAIN keep |-> keep[i].n]

\* A pandas scalar of the column's dtype for the fraction num/den.
Scalar(dtype, num, den) ==
    IF dtype = "int64" THEN NpInt64(num) ELSE NpFloat64(num, den)
NpNaN == NpFloat64(0, 0)

\* Series.min, max, mean, median (missing values skipped; NaN when none is
\* left).  min and max keep the column's dtype, mean and median are
\* np.float64.
NpFrac(f) == NpFloat64(f[1], f[2])
MinOf(dtype, v) ==
    IF v = <<>> THEN NpNaN
    ELSE Scalar(dtype, CHOOSE x \in {v[i] : i \in DOMAIN v} :
                           \A i \in DOMAIN v : x <= v[i], 1)
MaxOf(dtype, v) ==
    IF v = <<>> THEN NpNaN
    ELSE Scalar(dtype, CHOOSE x \in {v[i] : i \in DOMAIN v} :
                           \A i \in DOMAIN v : v[i] <= x, 1)
MeanOf(v) == IF v = <<>> THEN NpNaN ELSE NpFrac(Frac(SumSeq(v), Len(v)))
MedianOfSorted(v, n) ==
    IF n = 0 THEN NpNaN
    ELSE IF n % 2 = 1 THEN NpFloat64(v[(n + 1) \div 2], 1)
    ELSE NpFrac(Frac(v[n \div 2] + v[n \div 2 + 1], 2))
SeriesMin(dtype, cells) == MinOf(dtype, Present(cells))
SeriesMax(dtype, cells) == MaxOf(dtype, Present(cells))
SeriesMean(cells) == MeanOf(Present(cells))
SeriesMedian(cells) ==
    MedianOfSorted(SortSeq(Present(cells), LAMBDA a, b : a < b),
                   Cardinality({i \in DOMAIN cells : cells[i].k = "num"}))

\* The stats dict of one column.  isnull().sum() is an np.int64 and is
\* stored as it is; len(unique()) is an int; the four numeric statistics
\* pass through _convert_value.
\* dict.update: the items of a, overridden and extended by those of b.
DictUpdate(a, b) ==
    [k \in DOMAIN a \cup DOMAIN b |-> IF k \in DOMAIN b THEN b[k] ELSE a[k]]

column_stats_of(dtype, cells) ==
    PyDict(DictUpdate(
        [dtype |-> Lit(dtype),
         null_count |->
             NpInt64(Cardinality({i \in DOMAIN cells : cells[i].k = "na"})),
         unique_values |-> PyInt(Cardinality({cells[i] : i \in DOMAIN cells}))],
        IF is_numeric_dtype(dtype)
        THEN [min |-> _convert_value(SeriesMin(dtype, cells)),
              max |-> _convert_value(SeriesMax(dtype, cells)),
              mean |-> _convert_value(SeriesMean(cells)),
              median |-> _convert_value(SeriesMedian(cells))]
        ELSE EmptyDict))

\* row[column] of DataFrame.iterrows(): the row is a Series over the
\* frame's values, so its scalars are np.int64 in an all-int64 frame,
\* np.float64 in an all-numeric one, and plain Python objects when an
\* object column makes the values an object array.
RowScalar(c, dtype, dtypes) ==
    IF dtypes = {"int64"} THEN NpInt64(c.n)
    ELSE IF dtypes \subseteq {"int64", "float64"}
    THEN (IF c.k = "na" THEN NpNaN ELSE NpFloat64(c.n, 1))
    ELSE CASE c.k = "na" -> PyFloat(0, 0)
           [] c.k = "str" -> Lit(c.s)
           [] dtype = "int64" -> PyInt(c.n)
           [] OTHER -> PyFloat(c.n, 1)
RowValue(df, column, i) ==
    RowScalar(df.cells[column][i], df.dtype[column],
              {df.dtype[x] : x \in DOMAIN df.dtype})

RowCount(df) == IF df.columns = <<>> THEN 0 ELSE Len(df.cells[df.columns[1]])

\* The except clause of process_csv.
csv_error(csv_path, detail) ==
    PyDict([processing_status |-> Lit("error"),
            error_message |->
                Str(<<"Error processing CSV ">> \o csv_path \o <<": ">> \o detail),
            metadata |-> PyDict(EmptyDict),
            column_statistics |-> PyDict(EmptyDict),
            data |-> PyList(<<>>)])

\* process_csv: read the file, then metadata, the statistics of every
\* column, and the rows with every value through _convert_value; a fault
\* anywhere gives the error envelope.
process_csv(csv_path, w) ==
    IF w.fault # "none"
    THEN Return(csv_error(csv_path, CsvFaultDetail(w.fault, csv_path)))
    ELSE Return(PyDict(
             [metadata |->
                  PyDict([row_count |-> PyInt(RowCount(w)),
                          column_count |-> PyInt(Len(w.columns)),
                          columns |->
                              PyList([i \in DOMAIN w.columns |-> Lit(w.columns[i])]),
                          file_name |-> Str(BaseName(csv_path)),
                          file_size |-> PyInt(w.size)]),
              column_statistics |->
                  PyDict([c \in DOMAIN w.dtype |->
                             column_stats_of(w.dtype[c], w.cells[c])]),
              data |->
                  PyList([i \in 1..RowCount(w) |->
                             PyDict([c \in DOMAIN w.dtype |->
                                        _convert_value(RowValue(w, c, i))])]),
              processing_status |-> Lit("success")]))


(* ---------------------------- FileProcessor --------------------------- *)

ImageExts == { <<".", "p", "n", "g">>, <<".", "j", "p", "g">>,
               <<".", "j", "p", "e", "g">>, <<".", "t", "i", "f", "f">>,
               <<".", "b", "m", "p">> }
PdfExt == <<".", "p", "d", "f">>
CsvExt == <<".", "c", "s", "v">>

\* self.output_dir
output_dir == <<"o">>

\* The extension without the call of lower().
FileExtAsWritten(file_path) == SplitExt(file_path)[2]

\* _, ext = os.path.splitext(file_path); ext = ext.lower()
FileExt(file_path) == Lower(SplitExt(file_path)[2])

\* output_path: output_dir/<base name without extension>_processed.json
OutputPath(file_path) ==
    PathJoin(output_dir, SplitExt(BaseName(file_path))[1] \o <<"_processed.json">>)

\* The extractor process_file routes an extension to.
Route(ext) ==
    IF ext \in ImageExts THEN "process_image"
    ELSE IF ext = PdfExt THEN "process_pdf"
    ELSE IF ext = CsvExt THEN "process_csv"
    ELSE "none"

\* The call of the extractor named op.
Extract(op, file_path, w) ==
    CASE op = "process_image" -> process_image(file_path, w)
      [] op = "process_pdf" -> process_pdf(file_path, w)
      [] op = "process_csv" -> process_csv(file_path, w)

\* The try block of process_file.  Gives the outcome (a return or a raised
\* fault), the output directory afterwards and the collaborators called.
\* The extractor's envelope goes to save_output whatever its status, and
\* the return after the save says success.
\* The else branch: no extractor and no writer is called.
Unsupported(ext, fs) ==
    [out |-> Return(PyDict(
                [processing_status |-> Lit("error"),
                 error_message |-> Str(<<"Unsupported file type: ">> \o ext)])),
     fs |-> fs, calls |-> <<>>]

\* After save_output(result, output_path): its fault goes on to the except
\* clause of process_file; when it returns, process_file returns success
\* with the extractor's envelope as results, whatever that envelope says.
AfterSave(output_path, extracted, save) ==
    [out |-> IF save.out.raised THEN save.out
             ELSE Return(PyDict([processing_status |-> Lit("success"),
                                 output_path |-> Str(output_path),
                                 results |-> extracted.out.value])),
     fs |-> save.fs,
     calls |-> <<extracted,
                 [op |-> "save_output", arg |-> output_path, out |-> save.out]>>]

\* After result = <extractor>(file_path): the envelope is handed to
\* save_output without a look at its processing_status.
AfterExtract(output_path, extracted, wf, fs) ==
    IF extracted.out.raised
    THEN [out |-> extracted.out, fs |-> fs, calls |-> <<extracted>>]
    ELSE AfterSave(output_path, extracted,
                   save_output(extracted.out.value, output_path, fs, wf))

\* The if/elif chain on ext.
Dispatch(file_path, ext, op, w, wf, fs) ==
    IF op = "none"
    THEN Unsupported(ext, fs)
    ELSE AfterExtract(OutputPath(file_path),
                      [op |-> op, arg |-> file_path,
                       out |-> Extract(op, file_path, w)],
                      wf, fs)

\* The try block of process_file.  Gives the outcome (a return or a raised
\* fault), the output directory afterwards and the collaborators called.
process_file_try(file_path, ext, w, wf, fs) ==
    Dispatch(file_path, ext, Route(ext), w, wf, fs)

\* The except clause of process_file: any fault raised in the try block
\* becomes an error envelope.
Caught(file_path, r) ==
    IF r.out.raised
    THEN [r EXCEPT !.out = Return(PyDict(
             [processing_status |-> Lit("error"),
              error_message |->
                  Str(<<"Error processing file ">> \o file_path \o <<": ">>
                      \o r.out.detail)]))]
    ELSE r

\* process_file without its except clause.
process_file_uncaught(file_path, w, wf, fs) ==
    process_file_try(file_path, FileExt(file_path), w, wf, fs)

process_file(file_path, w, wf, fs) ==
    Caught(file_path, process_file_try(file_path, FileExt(file_path), w, wf, fs))

(* ------------------------------ the inputs ---------------------------- *)

Paths ==
    { <<"a", "/", "r", ".", "c", "s", "v">>,
      <<"b", "/", "r", ".", "C", "S", "V">>,
      <<"r", ".", "p", "d", "f">>,
      <<"x", ".", "P", "n", "g">>,
      <<"x", ".", "j", "p", "g">>,
      <<"y", ".", "j", "p", "e", "g">>,
      <<"y", ".", "t", "i", "f", "f">>,
      <<"z", ".", "b", "m", "p">>,
      <<"n", ".", "t", "x", "t">>,
      <<"n">>,
      <<"d", "/", ".", "c", "s", "v">> }

\* No extractor runs: nothing to say about the file.
NoWorld == [fault |-> "none"]

\* What the collaborators may do with the file at a path.
WorldsOf(op) ==
    CASE op = "process_image" -> ImageWorlds
      [] op = "process_pdf" -> PdfWorlds
      [] op = "process_csv" -> CsvWorlds
      [] OTHER -> {NoWorld}
Worlds(file_path) == WorldsOf(Route(FileExt(file_path)))

\* What the file system may do to the write of a path's output: nothing is
\* opened for a path no extractor takes.
WriteFaultsOf(file_path) ==
    IF Route(FileExt(file_path)) = "none" THEN {"none"} ELSE WriteFaults

\* The lists of paths batch_process is called with.
RECURSIVE SeqsUpTo(_, _)
SeqsUpTo(S, n) ==
    IF n = 0 THEN {<<>>}
    ELSE {<<>>} \cup {<<x>> \o q : x \in S, q \in SeqsUpTo(S, n - 1)}

(* ------------------------------ the state ----------------------------- *)

VARIABLES
    pc,          \* "idle", "loop" (inside batch_process), "done", "aborted"
    file_paths,  \* the argument of batch_process
    results,     \* batch_process's dict, as its items in insertion order
    log,         \* one entry per call of process_file, in call order: the
                 \* path, what the collaborators and the file system did
                 \* (fault, wf), the collaborators called, the outcome, and
                 \* whether the output directory changed
    fs,          \* the output directory: path -> file
    outcome      \* what batch_process returned

vars == <<pc, file_paths, results, log, fs, outcome>>

\* results[key] = value for a dict kept as its items in insertion order.
DictSet(d, key, value) ==
    IF \E i \in DOMAIN d : d[i].key = key
    THEN [i \in DOMAIN d |->
             IF d[i].key = key THEN [key |-> key, value |-> value] ELSE d[i]]
    ELSE Append(d, [key |-> key, value |-> value])

\* sum(1 for r in results.values() if r["processing_status"] == status)
CountStatus(d, status) ==
    Cardinality({i \in DOMAIN d : d[i].value.d.processing_status = Lit(status)})

\* FileProcessor(): the output directory exists and is empty.
Init ==
    /\ pc = "idle"
    /\ file_paths = <<>>
    /\ results = <<>>
    /\ log = <<>>
    /\ fs = EmptyDict
    /\ outcome = [returned |-> FALSE]

\* batch_process(paths) is called: results = {}.
BatchStart ==
    /\ pc = "idle"
    /\ \E paths \in SeqsUpTo(Paths, MaxBatch) :
          file_paths' = paths
    /\ pc' = "loop"
    /\ UNCHANGED <<results, log, fs, outcome>>

\* One pass of the loop: results[file_path] = self.process_file(file_path).
\* A fault leaving process_file would leave batch_process too.
BatchIterate ==
    /\ pc = "loop"
    /\ Len(log) < Len(file_paths)
    /\ \E file_path \in {file_paths[Len(log) + 1]} :
         \E w \in Worlds(file_path), wf \in WriteFaultsOf(file_path) :
           \E r \in {process_file(file_path, w, wf, fs)} :
              /\ log' = Append(log, [file_path |-> file_path, fault |-> w.fault,
                                     wf |-> wf, calls |-> r.calls, out |-> r.out,
                                     fs_changed |-> (r.fs # fs)])
              /\ fs' = r.fs
              /\ IF r.out.raised
                 THEN pc' = "aborted" /\ results' = results
                 ELSE pc' = pc /\ results' = DictSet(results, file_path, r.out.value)
    /\ UNCHANGED <<file_paths, outcome>>

\* The loop is over: batch_process returns its summary.
BatchReturn ==
    /\ pc = "loop"
    /\ Len(log) = Len(file_paths)
    /\ outcome' = [returned |-> TRUE,
                   batch_results |-> results,
                   total_files |-> Len(file_paths),
                   successful |-> CountStatus(results, "success"),
                   failed |-> CountStatus(results, "error")]
    /\ pc' = "done"
    /\ UNCHANGED <<file_paths, results, log, fs>>

Next == BatchStart \/ BatchIterate \/ BatchReturn

Spec == Init /\ [][Next]_vars


(* ------------------------------ the claims ---------------------------- *)

\* The processing_status of an envelope.
StatusOf(env) == env.d.processing_status.s[1]

Supported(file_path) == Lower(SplitExt(file_path)[2]) \in ImageExts \cup {PdfExt, CsvExt}

\* The extractor faulted on the entry's file.
Malformed(e) == Supported(e.file_path) /\ e.fault # "none"

\* save_output was called for the entry and raised.
SaveRaised(e) ==
    \E i \in DOMAIN e.calls : e.calls[i].op = "save_output" /\ e.calls[i].out.raised

Distinct(s) == \A i, j \in DOMAIN s : i # j => s[i] # s[j]

\* The call of process_file that has just returned, if any.  Every call is
\* the last one in the state it returns to, so what holds of LastCall in
\* every reachable state holds of every call.
LastCall == {log[i] : i \in {Len(log)} \cap DOMAIN log}

ErrorEnvelope(message) ==
    PyDict([processing_status |-> Lit("error"), error_message |-> Str(message)])

\* C1: batch_process over N paths, repeated paths included, returns
\* total_files = N, N entries in batch_results in input order, and
\* successful + failed = total_files.
C1_BatchPartition ==
    pc = "done" =>
        /\ outcome.total_files = Len(file_paths)
        /\ Len(outcome.batch_results) = Len(file_paths)
        /\ \A i \in DOMAIN outcome.batch_results :
               outcome.batch_results[i].key = file_paths[i]
        /\ outcome.successful + outcome.failed = outcome.total_files

\* C2: for N pairwise distinct paths of which k are malformed or
\* unsupported (and every write goes through), failed = k and
\* successful = N - k; a malformed file of a supported extension gets the
\* envelope error, "Error processing file {path}: {detail}".
C2_FailedCountsMalformed ==
    (pc = "done" /\ Distinct(file_paths) /\ \A i \in DOMAIN log : ~SaveRaised(log[i])) =>
        /\ outcome.failed =
               Cardinality({i \in DOMAIN log :
                               Malformed(log[i]) \/ ~Supported(log[i].file_path)})
        /\ outcome.successful = Len(file_paths) - outcome.failed
        /\ \A i \in DOMAIN log :
               Malformed(log[i]) =>
                   /\ ~log[i].out.raised
                   /\ StatusOf(log[i].out.value) = "error"
                   /\ SubSeq(log[i].out.value.d.error_message.s, 1,
                             1 + Len(log[i].file_path) + 1)
                        = <<"Error processing file ">> \o log[i].file_path \o <<": ">>

\* C3: an output file exists at a processed input's derived path only if
\* the extraction of an input with that derived path succeeded.
C3_OutputOnlyOnSuccess ==
    \A i \in DOMAIN log :
        OutputPath(log[i].file_path) \in DOMAIN fs =>
            \E j \in DOMAIN log :
                /\ OutputPath(log[j].file_path) = OutputPath(log[i].file_path)
                /\ Supported(log[j].file_path)
                /\ log[j].fault = "none"

\* C4: process_file on a valid file of a supported extension, the file
\* system accepting the write, returns success with an output_path, and on
\* return the file at output_path is the complete JSON document of results.
C4_ValidFileSucceeds ==
    \A e \in LastCall :
        (Supported(e.file_path) /\ e.fault = "none" /\ e.wf = "none") =>
            /\ ~e.out.raised
            /\ StatusOf(e.out.value) = "success"
            /\ e.out.value.d.output_path.s \in DOMAIN fs
            /\ fs[e.out.value.d.output_path.s].state = "complete"
            /\ fs[e.out.value.d.output_path.s].doc = JsonDoc(e.out.value.d.results)

\* Whether the write of the entry's output fails: the file system refuses
\* it, or the extractor's envelope is not serializable.
WriteFails(e) ==
    /\ e.calls # <<>>
    /\ ~e.calls[1].out.raised
    /\ e.wf # "none" \/ ~JsonSerializable(e.calls[1].out.value)

\* C5, as stated: a write failure in save_output during process_file
\* reaches the caller of process_file as a raised fault.
C5_WriteFaultReachesCaller ==
    \A e \in LastCall : WriteFails(e) => e.out.raised

\* C5, amended: a write failure is re-raised by save_output to process_file,
\* whose except clause returns the envelope error, "Error processing file
\* {path}: {detail}" with save_output's fault as detail; nothing is raised
\* to the caller of process_file and success is never reported.
C5_WriteFaultBecomesErrorEnvelope ==
    \A e \in LastCall :
        WriteFails(e) =>
            /\ Len(e.calls) = 2
            /\ e.calls[2].op = "save_output"
            /\ e.calls[2].out.raised
            /\ ~e.out.raised
            /\ e.out.value =
                   ErrorEnvelope(<<"Error processing file ">> \o e.file_path
                                 \o <<": ">> \o e.calls[2].out.detail)

C5_Witness ==
    /\ \E i \in DOMAIN log :
           log[i].wf = "write" /\ ~log[i].out.raised
           /\ StatusOf(log[i].out.value) = "error"
    /\ \E i \in DOMAIN log :
           log[i].wf = "none" /\ WriteFails(log[i]) /\ ~log[i].out.raised
           /\ StatusOf(log[i].out.value) = "error"

\* C6: whatever faults the extractors and the writes meet, every call of
\* process_file returns an envelope whose processing_status is success or
\* error, an error envelope carrying error_message; batch_process is never
\* aborted, calls process_file once per list element in list order, and
\* returns its outcome after the last one.
C6_AlwaysAnEnvelope ==
    /\ pc \in {"idle", "loop", "done"}
    /\ Len(log) <= Len(file_paths)
    /\ \A i \in DOMAIN log : log[i].file_path = file_paths[i]
    /\ \A e \in LastCall :
           /\ ~e.out.raised
           /\ e.out.value.t = "dict"
           /\ "processing_status" \in DOMAIN e.out.value.d
           /\ StatusOf(e.out.value) \in {"success", "error"}
           /\ StatusOf(e.out.value) = "error" => "error_message" \in DOMAIN e.out.value.d
    /\ pc = "done" => Len(log) = Len(file_paths) /\ outcome.returned
    /\ outcome.returned => pc = "done"

C6_Witness ==
    /\ pc = "done"
    /\ \E i \in DOMAIN log : log[i].fault # "none" /\ log[i].wf = "open"
    /\ \E i \in DOMAIN log : log[i].fault = "none" /\ log[i].wf = "write"

\* The extractor calls of an entry.
ExtractorsCalled(e) ==
    {e.calls[i].op : i \in {j \in DOMAIN e.calls : e.calls[j].op # "save_output"}}

\* C7: process_file routes by the lowercased extension alone: the image
\* extensions reach only process_image, pdf only process_pdf, csv only
\* process_csv, in any letter case; any other extension, the empty one
\* included, calls no extractor and no writer, leaves the output directory
\* as it was and returns error, "Unsupported file type: {ext}".
C7_RoutesByLowercasedExtension ==
    \A e \in LastCall :
        \E ext \in {Lower(SplitExt(e.file_path)[2])} :
            /\ ext \in ImageExts => ExtractorsCalled(e) = {"process_image"}
            /\ ext = PdfExt => ExtractorsCalled(e) = {"process_pdf"}
            /\ ext = CsvExt => ExtractorsCalled(e) = {"process_csv"}
            /\ ext \notin ImageExts \cup {PdfExt, CsvExt} =>
                   /\ e.calls = <<>>
                   /\ ~e.fs_changed
                   /\ ~e.out.raised
                   /\ e.out.value = ErrorEnvelope(<<"Unsupported file type: ">> \o ext)

C7_Witness ==
    /\ \E i \in DOMAIN log :
           /\ SplitExt(log[i].file_path)[2] = <<".", "C", "S", "V">>
           /\ ExtractorsCalled(log[i]) = {"process_csv"}
    /\ \E i \in DOMAIN log :
           /\ SplitExt(log[i].file_path)[2] = <<>>
           /\ log[i].calls = <<>>
           /\ log[i].out.value = ErrorEnvelope(<<"Unsupported file type: ">>)

Native == {"int", "float", "str", "NoneType"}

\* C8: in every success envelope of process_csv, every field of every
\* column's statistics and every value of every data row is a plain
\* Python value or None, never a numpy scalar.
C8_StatisticsAreNative ==
    \A e \in LastCall :
        \A c \in {e.calls[j] : j \in {k \in DOMAIN e.calls :
                                         e.calls[k].op = "process_csv"}} :
            (~c.out.raised /\ StatusOf(c.out.value) = "success") =>
                /\ \A col \in DOMAIN c.out.value.d.column_statistics.d :
                       \A f \in DOMAIN c.out.value.d.column_statistics.d[col].d :
                           c.out.value.d.column_statistics.d[col].d[f].t \in Native
                /\ \A r \in DOMAIN c.out.value.d.data.items :
                       \A col \in DOMAIN c.out.value.d.data.items[r].d :
                           c.out.value.d.data.items[r].d[col].t \in Native

\* The placeholders the error envelope of an extractor carries.
Placeholders(op) ==
    CASE op = "process_csv" ->
             [metadata |-> PyDict(EmptyDict), column_statistics |-> PyDict(EmptyDict),
              data |-> PyList(<<>>)]
      [] op = "process_pdf" -> [pages |-> PyList(<<>>), metadata |-> PyDict(EmptyDict)]
      [] op = "process_image" ->
             [extracted_text |-> Str(<<>>), confidence_score |-> PyInt(0)]

\* C9: a fault at any point of an extractor call never leaves the
\* extractor and leaks no partial payload: the extractor returns
\* processing_status error with an error_message and exactly the empty
\* placeholders of its format (no metadata key for an image).
C9_ErrorEnvelopeCarriesNoPayload ==
    \A e \in LastCall :
        \A c \in {e.calls[j] : j \in {k \in DOMAIN e.calls :
                                         e.calls[k].op # "save_output"}} :
            /\ ~c.out.raised
            /\ e.fault # "none" =>
                   /\ StatusOf(c.out.value) = "error"
                   /\ c.out.value.d.error_message.t = "str"
                   /\ DOMAIN c.out.value.d =
                          {"processing_status", "error_message"}
                              \cup DOMAIN Placeholders(c.op)
                   /\ \A k \in DOMAIN Placeholders(c.op) :
                          c.out.value.d[k] = Placeholders(c.op)[k]
            /\ e.fault = "none" => StatusOf(c.out.value) = "success"

C9_Witness ==
    /\ \E i \in DOMAIN log :
           /\ log[i].fault = "page"
           /\ log[i].calls[1].out.value.d.pages = PyList(<<>>)
    /\ \E i \in DOMAIN log :
           /\ log[i].fault = "rows"
           /\ log[i].calls[1].out.value.d.data = PyList(<<>>)

\* C10: after batch_process over pairwise distinct paths (every write
\* going through), the file at the output_path of every success outcome
\* holds that input's own results, and there are as many output files as
\* successes, also when inputs share a base name without extension.
C10_OneFilePerSuccess ==
    (pc = "done" /\ Distinct(file_paths) /\ \A i \in DOMAIN log : ~SaveRaised(log[i])) =>
        /\ \A i \in DOMAIN results :
               StatusOf(results[i].value) = "success" =>
                   /\ results[i].value.d.output_path.s \in DOMAIN fs
                   /\ fs[results[i].value.d.output_path.s]
                        = CompleteFile(results[i].value.d.results)
        /\ Cardinality(DOMAIN fs) = outcome.successful

=============================================================================
